---- MODULE Spec2Model ----
(***************************************************************************)
(* Model of src/arduino.rs: the Arduino language-server extension.         *)
(* One invocation of language_server_command runs to completion before the *)
(* next one starts; pc is the position inside the invocation.  The host's  *)
(* collaborators (settings, PATH lookup, release feed, download, file      *)
(* system) answer nondeterministically within their contracts.             *)
(***************************************************************************)
EXTENDS Integers, Sequences, FiniteSets, TLC

VARIABLES
  cached_binary_path,  \* ArduinoExtension.cached_binary_path : Option<String>
  fs,                  \* the extension's working directory
  feed,                \* what latest_github_release would report now
  platform,            \* zed::current_platform() : <<os, arch>>
  status,              \* last installation status the host was given
  pc,                  \* position inside the running invocation
  lsp_settings,        \* LspSettings::for_worktree("arduino", worktree)
  path,                \* result of worktree.which("arduino_language_server")
  args,                \* local args of language_server_command
  env,                 \* local env of language_server_command
  release,             \* local release
  asset,               \* local asset
  entries,             \* directory entries the cleanup loop has yet to visit
  log,                 \* collaborator calls of the running invocation, in order
  resolved,            \* what language_server_binary_path returned
  result,              \* what language_server_command returned
  prev,                \* the download-derived path the invocation immediately
                       \* before resolved, the world unchanged since
  interrupted,         \* the path the invocation immediately before extracted
                       \* when it then failed in the cleanup pass, the world
                       \* unchanged since
  probed,              \* what the probes of language_server_command answered
  configuration        \* settings read and value returned by the last
                       \* language_server_workspace_configuration

persistent == <<cached_binary_path, fs, feed, platform, status>>
locals == <<lsp_settings, path, args, env, release, asset, entries>>
\* What no step of language_server_binary_path touches
carried == <<prev, interrupted, probed, configuration>>
vars == <<cached_binary_path, fs, feed, platform, status, pc, lsp_settings,
          path, args, env, release, asset, entries, log, resolved, result,
          prev, interrupted, probed, configuration>>

----------------------------------------------------------------------------
(* Bounds *)

MaxVersion == 2      \* release versions v1.1.0 .. v1.MaxVersion.0

----------------------------------------------------------------------------
(* Option<T> as a sequence of length at most one *)

None == <<>>
Some(x) == <<x>>
IsSome(o) == o # <<>>
Unwrap(o) == o[1]

----------------------------------------------------------------------------
(* Platform tables, names and paths *)

Os == {"Mac", "Linux", "Windows"}
Architecture == {"Aarch64", "X86", "X8664"}

OsLabel(os) ==
  CASE os = "Mac" -> "macOS"
    [] os = "Linux" -> "Linux"
    [] os = "Windows" -> "Windows"

ArchLabel(arch) ==
  CASE arch = "Aarch64" -> "ARM64"
    [] arch = "X86" -> "32bit"
    [] arch = "X8664" -> "64bit"

AssetName(version, os, arch) ==
  "arduino-language-server_" \o version \o "_" \o OsLabel(os) \o "_"
    \o ArchLabel(arch) \o ".tar.gz"

VersionDir(version) == "arduino-language-server-" \o version

\* Mutant: the Windows executable loses its suffix
BinaryName_NoExe(os) == "arduino-language-server"

BinaryName(os) ==
  IF os \in {"Mac", "Linux"} THEN "arduino-language-server"
  ELSE "arduino-language-server.exe"

JoinPath(dir, name) == dir \o "/" \o name

FinalBinaryPath(version, os) == JoinPath(VersionDir(version), BinaryName(os))

ServerWhichName == "arduino_language_server"

----------------------------------------------------------------------------
(* The worlds the collaborators are drawn from *)

Versions == {"v1." \o ToString(n) \o ".0" : n \in 1..MaxVersion}

\* Builds the extension may run in
Targets == {<<"Linux", "X8664">>, <<"Mac", "Aarch64">>, <<"Windows", "X8664">>}

\* What else the working directory may hold
OtherDirs == {"node_modules"}
PlainFiles == {"download.log"}
DirNames == {VersionDir(v) : v \in Versions} \cup OtherDirs
BinaryNames == {BinaryName(os) : os \in Os}
FilesUnder(dir) == {JoinPath(dir, b) : b \in BinaryNames}

OverridePath == "/opt/custom/arduino-language-server"
SystemPath == "/usr/bin/arduino_language_server"

Url(version, name) ==
  "https://github.com/arduino/arduino-language-server/releases/download/"
    \o version \o "/" \o name

MirrorUrl(version, name) == "https://mirror.example/" \o version \o "/" \o name

MkAsset(name, url) == [name |-> name, download_url |-> url]

\* Asset lists a release may carry (require_assets: at least one asset).
\* The first has no macOS/ARM64 archive and lists one name twice.
PlatformAssets(version) ==
  LET mac == AssetName(version, "Mac", "X8664")
      linux == AssetName(version, "Linux", "X8664")
      windows == AssetName(version, "Windows", "X8664")
  IN << MkAsset(mac, Url(version, mac)),
        MkAsset(linux, Url(version, linux)),
        MkAsset(windows, Url(version, windows)),
        MkAsset(linux, MirrorUrl(version, linux)) >>

ChecksumOnly(version) ==
  LET name == version \o "-checksums.txt"
  IN << MkAsset(name, Url(version, name)) >>

Releases ==
  {[version |-> v, assets |-> PlatformAssets(v)] : v \in Versions}
    \cup {[version |-> v, assets |-> ChecksumOnly(v)] : v \in Versions}

NoBinary == [path |-> None, arguments |-> None, env |-> None]

SettingsChoices ==
  { [ok |-> FALSE, binary |-> None, settings |-> None],
    [ok |-> TRUE, binary |-> None, settings |-> Some("{}")],
    [ok |-> TRUE,
     binary |-> Some([path |-> Some(OverridePath),
                      arguments |-> Some(<<"-cli-config", "/x/arduino-cli.yaml",
                                           "-cli", "/x/arduino-cli">>),
                      env |-> Some({<<"ARDUINO_DIRECTORIES_DATA", "/x/data">>})]),
     settings |-> Some("{\"lsp\":true}")],
    [ok |-> TRUE,
     binary |-> Some([NoBinary EXCEPT
                        !.arguments = Some(<<"-clangd", "/x/clangd">>)]),
     settings |-> None] }

----------------------------------------------------------------------------
(* File system *)

\* dirs, plain: the directories and regular files among the immediate
\* children of the working directory; files: the regular files inside the
\* directories; marked: those made executable since they were extracted
InitFs == [dirs |-> {}, files |-> {}, marked |-> {}, plain |-> PlainFiles]

\* fs::metadata(p).map_or(false, |stat| stat.is_file())
IsFile(f, p) == p \in f.files

\* zed::download_file(url, dir, GzipTar) that created dir; the archive held
\* the files in extracted.  A re-extracted file has not been marked yet.
Extract(f, dir, extracted) ==
  [f EXCEPT !.dirs = @ \cup {dir},
            !.files = @ \cup extracted,
            !.marked = @ \ extracted]

\* fs::remove_dir_all(dir) that succeeded
RemoveDirAll(f, dir) ==
  [f EXCEPT !.dirs = @ \ {dir},
            !.files = @ \ FilesUnder(dir),
            !.marked = @ \ FilesUnder(dir)]

\* fs::remove_dir_all(dir) that failed after emptying the directory
RemoveContents(f, dir) ==
  [f EXCEPT !.files = @ \ FilesUnder(dir),
            !.marked = @ \ FilesUnder(dir)]

RemoveFile(f, p) == [f EXCEPT !.files = @ \ {p}, !.marked = @ \ {p}]

\* zed::make_file_executable(p) that succeeded
MarkExecutable(f, p) == [f EXCEPT !.marked = @ \cup {p}]

----------------------------------------------------------------------------
(* Results and the call log *)

\* val: the path or command of an Ok, the pieces of an Err's message;
\* via: the precedence step that produced a resolved path
NoResult == [kind |-> "none", val |-> <<>>, via |-> "none"]
Ok(v, via) == [kind |-> "Ok", val |-> v, via |-> via]
Err(parts) == [kind |-> "Err", val |-> parts, via |-> "none"]
Panic == [kind |-> "Panic", val |-> <<>>, via |-> "none"]

\* format!("{:?}", s) of a string without characters to escape
DebugFmt(s) == "\"" \o s \o "\""

\* A collaborator call: its name, its arguments (a tuple of strings) and
\* how it answered
Call(op, arg, ret) == [op |-> op, arg |-> arg, ret |-> ret]
Logged(op) == \E i \in 1..Len(log) : log[i].op = op
LoggedCall(c) == \E i \in 1..Len(log) : log[i] = c
CountOp(op) == Cardinality({i \in 1..Len(log) : log[i].op = op})

NoRelease == [version |-> "", assets |-> <<>>]
NoAsset == [name |-> "", download_url |-> ""]

Min(S) == CHOOSE x \in S : \A y \in S : x <= y

Max(S) == CHOOSE x \in S : \A y \in S : x >= y

\* Mutant: the last asset of that name wins
FindAsset_Last(assets, name) ==
  LET hits == {i \in 1..Len(assets) : assets[i].name = name}
  IN IF hits = {} THEN None ELSE Some(assets[Max(hits)])

\* release.assets.iter().find(|asset| asset.name == asset_name)
FindAsset(assets, name) ==
  LET hits == {i \in 1..Len(assets) : assets[i].name = name}
  IN IF hits = {} THEN None ELSE Some(assets[Min(hits)])

----------------------------------------------------------------------------
(* Names computed inside language_server_binary_path *)

asset_name == AssetName(release.version, platform[1], platform[2])
version_dir == VersionDir(release.version)
binary_name == BinaryName(platform[1])
final_binary_path == JoinPath(version_dir, binary_name)

----------------------------------------------------------------------------
(* Leaving language_server_binary_path *)

\* return Ok(p): language_server_command goes on to build the command
ReturnOk(p, via) ==
  /\ resolved' = Ok(p, via)
  /\ result' = result
  /\ pc' = "synth"

\* return Err(e): the ? operators, and the ? of language_server_command on it
ReturnErr(parts) ==
  /\ resolved' = Err(parts)
  /\ result' = Err(parts)
  /\ pc' = "done"

Continue(next) ==
  /\ pc' = next
  /\ UNCHANGED <<resolved, result>>

----------------------------------------------------------------------------
(* language_server_command, entry: seeds args and env from the settings *)

SettingsBinary(s) == IF s.ok THEN s.binary ELSE None

SeedArgs(s) ==
  IF IsSome(SettingsBinary(s)) /\ IsSome(Unwrap(SettingsBinary(s)).arguments)
  THEN Unwrap(Unwrap(SettingsBinary(s)).arguments)
  ELSE <<>>

SeedEnv(s) ==
  IF IsSome(SettingsBinary(s)) /\ IsSome(Unwrap(SettingsBinary(s)).env)
  THEN Unwrap(Unwrap(SettingsBinary(s)).env)
  ELSE {}

\* The finished invocation extracted the executable and then returned the
\* error of the directory listing or of one of its entries
FailedInCleanup ==
  /\ resolved.kind = "Err"
  /\ LoggedCall(Call("download_file",
                     <<asset.download_url, version_dir, "GzipTar">>, "ok"))
  /\ IsFile(fs, final_binary_path)
  /\ ~Logged("make_file_executable")

NoProbe == [base |-> FALSE, exists |-> FALSE, clangd |-> None, cli |-> None]
NoConfiguration == [settings |-> None, result |-> NoResult]

LanguageServerCommand ==
  /\ pc \in {"idle", "done"}
  /\ \E s \in SettingsChoices :
       /\ lsp_settings' = s
       /\ args' = SeedArgs(s)
       /\ env' = SeedEnv(s)
  /\ prev' = IF pc = "done" /\ resolved.kind = "Ok"
                  /\ resolved.via \in {"cache", "acquire"}
              THEN Some(resolved.val) ELSE None
  /\ interrupted' = IF pc = "done" /\ FailedInCleanup
                     THEN Some(final_binary_path) ELSE None
  /\ probed' = NoProbe
  /\ configuration' = NoConfiguration
  /\ path' = None
  /\ release' = NoRelease
  /\ asset' = NoAsset
  /\ entries' = {}
  /\ log' = <<>>
  /\ resolved' = NoResult
  /\ result' = NoResult
  /\ pc' = "override"
  /\ UNCHANGED persistent

----------------------------------------------------------------------------
(* language_server_binary_path, steps 1-3 *)

OverrideOf(s) ==
  IF IsSome(SettingsBinary(s)) THEN Unwrap(SettingsBinary(s)).path ELSE None

\* Mutant: the configured path is not consulted
ExplicitOverride_Skipped ==
  /\ pc = "override"
  /\ Continue("which")
  /\ UNCHANGED <<persistent, locals, log, carried>>

ExplicitOverride ==
  /\ pc = "override"
  /\ IF IsSome(OverrideOf(lsp_settings))
     THEN ReturnOk(Unwrap(OverrideOf(lsp_settings)), "override")
     ELSE Continue("which")
  /\ UNCHANGED <<persistent, locals, log, carried>>

\* Mutant: a PATH hit is noted but resolution goes on
SystemDiscovery_NoReturn ==
  /\ pc = "which"
  /\ \E found \in {None, Some(SystemPath)} :
       /\ path' = found
       /\ log' = Append(log, Call("which", <<ServerWhichName>>,
                                  IF IsSome(found) THEN "some" ELSE "none"))
  /\ Continue("cache")
  /\ UNCHANGED <<persistent, lsp_settings, args, env, release, asset, entries,
                 carried>>

SystemDiscovery ==
  /\ pc = "which"
  /\ \E found \in {None, Some(SystemPath)} :
       /\ path' = found
       /\ log' = Append(log, Call("which", <<ServerWhichName>>,
                                  IF IsSome(found) THEN "some" ELSE "none"))
       /\ IF IsSome(found) THEN ReturnOk(Unwrap(found), "path")
          ELSE Continue("cache")
  /\ UNCHANGED <<persistent, lsp_settings, args, env, release, asset, entries,
                 carried>>

\* fs::metadata(p) as the log shows it
Stat(p) == Call("metadata", <<p>>, IF IsFile(fs, p) THEN "file" ELSE "absent")

\* Mutant: the is_file test is inverted
CacheValidation_Inverted ==
  /\ pc = "cache"
  /\ IF IsSome(cached_binary_path)
     THEN /\ log' = Append(log, Stat(Unwrap(cached_binary_path)))
          /\ IF ~IsFile(fs, Unwrap(cached_binary_path))
             THEN ReturnOk(Unwrap(cached_binary_path), "cache")
             ELSE Continue("checking")
     ELSE /\ log' = log
          /\ Continue("checking")
  /\ UNCHANGED <<persistent, locals, carried>>

\* Mutant: a cached path found stale is cleared
CacheValidation_Clears ==
  /\ pc = "cache"
  /\ IF IsSome(cached_binary_path)
     THEN /\ log' = Append(log, Stat(Unwrap(cached_binary_path)))
          /\ IF IsFile(fs, Unwrap(cached_binary_path))
             THEN /\ ReturnOk(Unwrap(cached_binary_path), "cache")
                  /\ cached_binary_path' = cached_binary_path
             ELSE /\ Continue("checking")
                  /\ cached_binary_path' = None
     ELSE /\ log' = log
          /\ cached_binary_path' = cached_binary_path
          /\ Continue("checking")
  /\ UNCHANGED <<fs, feed, platform, status, locals, carried>>

\* Mutant: the cached path is trusted without a stat
CacheValidation_Trusting ==
  /\ pc = "cache"
  /\ IF IsSome(cached_binary_path)
     THEN ReturnOk(Unwrap(cached_binary_path), "cache")
     ELSE Continue("checking")
  /\ UNCHANGED <<persistent, locals, log, carried>>

CacheValidation ==
  /\ pc = "cache"
  /\ IF IsSome(cached_binary_path)
     THEN /\ log' = Append(log, Stat(Unwrap(cached_binary_path)))
          /\ IF IsFile(fs, Unwrap(cached_binary_path))
             THEN ReturnOk(Unwrap(cached_binary_path), "cache")
             ELSE Continue("checking")
     ELSE /\ log' = log
          /\ Continue("checking")
  /\ UNCHANGED <<persistent, locals, carried>>

----------------------------------------------------------------------------
(* language_server_binary_path, step 4: acquisition *)

SetStatus(st) ==
  /\ status' = st
  /\ log' = Append(log, Call("set_language_server_installation_status",
                             <<st>>, "ok"))

\* Mutant: the release is queried without telling the host
NotifyChecking_Silent ==
  /\ pc = "checking"
  /\ Continue("release")
  /\ UNCHANGED <<persistent, locals, log, carried>>

NotifyChecking ==
  /\ pc = "checking"
  /\ SetStatus("CheckingForUpdate")
  /\ Continue("release")
  /\ UNCHANGED <<cached_binary_path, fs, feed, platform, locals, carried>>

Repo == "arduino/arduino-language-server"

\* Mutant: a failed query is tried once more
LatestRelease_Retry ==
  /\ pc = "release"
  /\ \/ /\ release' = feed
        /\ log' = Append(log, Call("latest_github_release", <<Repo>>, "ok"))
        /\ Continue("asset")
     \/ /\ release' = release
        /\ log' = Append(log, Call("latest_github_release", <<Repo>>, "err"))
        /\ IF Logged("latest_github_release")
           THEN ReturnErr(<<"release feed unavailable">>)
           ELSE Continue("release")
  /\ UNCHANGED <<persistent, lsp_settings, path, args, env, asset, entries,
                 carried>>

LatestRelease ==
  /\ pc = "release"
  /\ \/ /\ release' = feed
        /\ log' = Append(log, Call("latest_github_release", <<Repo>>, "ok"))
        /\ Continue("asset")
     \/ /\ release' = release
        /\ log' = Append(log, Call("latest_github_release", <<Repo>>, "err"))
        /\ ReturnErr(<<"release feed unavailable">>)
  /\ UNCHANGED <<persistent, lsp_settings, path, args, env, asset, entries,
                 carried>>

\* Mutant: with no exact match the first asset is taken
SelectAsset_FirstAsset ==
  /\ pc = "asset"
  /\ LET found == FindAsset(release.assets, asset_name)
     IN asset' = IF IsSome(found) THEN Unwrap(found) ELSE release.assets[1]
  /\ Continue("stat")
  /\ UNCHANGED <<persistent, lsp_settings, path, args, env, release, entries,
                 log, carried>>

SelectAsset ==
  /\ pc = "asset"
  /\ LET found == FindAsset(release.assets, asset_name)
     IN IF IsSome(found)
        THEN /\ asset' = Unwrap(found)
             /\ Continue("stat")
        ELSE /\ asset' = asset
             /\ ReturnErr(<<"no asset found matching ", DebugFmt(asset_name)>>)
  /\ UNCHANGED <<persistent, lsp_settings, path, args, env, release, entries,
                 log, carried>>

\* Mutant: only the download is skipped when the file is there
StatFinal_AlwaysCleanup ==
  /\ pc = "stat"
  /\ log' = Append(log, Stat(final_binary_path))
  /\ Continue(IF IsFile(fs, final_binary_path) THEN "read_dir"
              ELSE "downloading")
  /\ UNCHANGED <<persistent, locals, carried>>

\* Mutant: the archive is fetched whether or not the executable is there
StatFinal_AlwaysDownload ==
  /\ pc = "stat"
  /\ log' = Append(log, Stat(final_binary_path))
  /\ Continue("downloading")
  /\ UNCHANGED <<persistent, locals, carried>>

StatFinal ==
  /\ pc = "stat"
  /\ log' = Append(log, Stat(final_binary_path))
  /\ IF IsFile(fs, final_binary_path) THEN Continue("store")
     ELSE Continue("downloading")
  /\ UNCHANGED <<persistent, locals, carried>>

NotifyDownloading ==
  /\ pc = "downloading"
  /\ SetStatus("Downloading")
  /\ Continue("download")
  /\ UNCHANGED <<cached_binary_path, fs, feed, platform, locals, carried>>

DownloadCall(ret) ==
  Call("download_file", <<asset.download_url, version_dir, "GzipTar">>, ret)

\* The archive is expected to hold the executable at its root; whether it
\* does is the release's business.  A failed download may leave the
\* directory behind.
Download ==
  /\ pc = "download"
  /\ \/ \E extracted \in {{final_binary_path}, {}} :
          /\ fs' = Extract(fs, version_dir, extracted)
          /\ log' = Append(log, DownloadCall("ok"))
          /\ Continue("read_dir")
     \/ \E partial \in {fs, Extract(fs, version_dir, {})} :
          /\ fs' = partial
          /\ log' = Append(log, DownloadCall("err"))
          /\ ReturnErr(<<"failed to download file: ", "download error">>)
  /\ UNCHANGED <<cached_binary_path, feed, platform, status, locals, carried>>

ReadDir ==
  /\ pc = "read_dir"
  /\ \/ /\ entries' = fs.dirs \cup fs.plain
        /\ log' = Append(log, Call("read_dir", <<".">>, "ok"))
        /\ Continue(IF entries' = {} THEN "make_exec" ELSE "cleanup")
     \/ /\ entries' = entries
        /\ log' = Append(log, Call("read_dir", <<".">>, "err"))
        /\ ReturnErr(<<"failed to list working directory ", "io error">>)
  /\ UNCHANGED <<persistent, lsp_settings, path, args, env, release, asset,
                 carried>>

\* What a failed fs::remove_dir_all(dir) may leave behind: everything, or
\* the emptied directory
RemoveFailures(f, dir) == {f, RemoveContents(f, dir)}

AfterEntry(e) == IF entries \ {e} = {} THEN "make_exec" ELSE "cleanup"

\* Mutant: a failed removal is propagated with ?
RemoveStale_Propagates(e) ==
  \/ /\ fs' = RemoveDirAll(fs, e)
     /\ log' = Append(log, Call("remove_dir_all", <<e>>, "ok"))
     /\ Continue(AfterEntry(e))
  \/ /\ fs' \in RemoveFailures(fs, e)
     /\ log' = Append(log, Call("remove_dir_all", <<e>>, "err"))
     /\ ReturnErr(<<"failed to remove ", DebugFmt(e)>>)

\* fs::remove_dir_all(entry.path()).ok(): the error is dropped
RemoveStale(e) ==
  /\ \/ /\ fs' = RemoveDirAll(fs, e)
        /\ log' = Append(log, Call("remove_dir_all", <<e>>, "ok"))
     \/ /\ fs' \in RemoveFailures(fs, e)
        /\ log' = Append(log, Call("remove_dir_all", <<e>>, "err"))
  /\ Continue(AfterEntry(e))

\* Mutant: only directories of other versions are removed
IsStale_VersionsOnly(f, name, keep) ==
  name \in f.dirs /\ name # keep /\ name \in {VersionDir(v) : v \in Versions}

\* Whether the cleanup loop removes the entry
IsStale(f, name, keep) == name \in f.dirs /\ name # keep

\* One iteration of the loop over the directory entries
CleanupEntry ==
  /\ pc = "cleanup"
  /\ \E e \in entries :
       \/ /\ entries' = entries \ {e}
          /\ IF IsStale(fs, e, version_dir)
             THEN RemoveStale(e)
             ELSE /\ log' = log
                  /\ fs' = fs
                  /\ Continue(AfterEntry(e))
       \/ /\ UNCHANGED <<entries, log, fs>>
          /\ ReturnErr(<<"failed to load directory entry ", "io error">>)
       \/ /\ UNCHANGED <<entries, log, fs>>
          /\ ReturnErr(<<"failed to get file type for ", DebugFmt(e), ": ",
                         "io error">>)
  /\ UNCHANGED <<cached_binary_path, feed, platform, status, lsp_settings,
                 path, args, env, release, asset, carried>>

\* zed::make_file_executable succeeds only on an existing file
MakeExecutable ==
  /\ pc = "make_exec"
  /\ \/ /\ IsFile(fs, final_binary_path)
        /\ fs' = MarkExecutable(fs, final_binary_path)
        /\ log' = Append(log, Call("make_file_executable",
                                   <<final_binary_path>>, "ok"))
        /\ Continue("store")
     \/ /\ fs' = fs
        /\ log' = Append(log, Call("make_file_executable",
                                   <<final_binary_path>>, "err"))
        /\ ReturnErr(<<"failed to make file executable">>)
  /\ UNCHANGED <<cached_binary_path, feed, platform, status, locals, carried>>

StoreCache ==
  /\ pc = "store"
  /\ cached_binary_path' = Some(final_binary_path)
  /\ ReturnOk(final_binary_path, "acquire")
  /\ UNCHANGED <<fs, feed, platform, status, locals, log, carried>>

----------------------------------------------------------------------------
(* language_server_command, after the binary path is resolved *)

HomeDir == "/home/user"
LocalAppData == "C:/Users/user/AppData/Local"
ClangdPath == "/y/clangd"
CliPath == "/usr/bin/arduino-cli"
ShellEnv == << <<"PATH", "/usr/bin">>, <<"HOME", HomeDir>>, <<"PATH", "/bin">> >>

\* What the probes of one invocation may answer: the home directory (or
\* LOCALAPPDATA), whether the default arduino-cli.yaml exists,
\* which("clangd"), which("arduino-cli")
Probes ==
  { [base |-> FALSE, exists |-> FALSE, clangd |-> None, cli |-> None],
    [base |-> TRUE, exists |-> FALSE, clangd |-> None, cli |-> None],
    [base |-> TRUE, exists |-> FALSE, clangd |-> Some(ClangdPath),
     cli |-> None],
    [base |-> TRUE, exists |-> TRUE, clangd |-> Some(ClangdPath),
     cli |-> Some(CliPath)] }

UserSpecified(a, flag) == \E i \in 1..Len(a) : a[i] = flag

\* The per-OS default arduino-cli.yaml under the base directory
CliConfigPath(os, base) ==
  CASE os = "Mac" -> base \o "/Library/Arduino15/arduino-cli.yaml"
    [] os = "Linux" -> base \o "/.arduino15/arduino-cli.yaml"
    [] os = "Windows" -> base \o "/Arduino15/arduino-cli.yaml"

\* Mutant: the user's flag is not looked for
PushIfAbsent_Always(a, user, flag, probe) ==
  IF IsSome(probe) THEN a \o <<flag, Unwrap(probe)>> ELSE a

\* Appends "flag value" when the user gave no such flag and the probe hit
PushIfAbsent(a, user, flag, probe) ==
  IF ~UserSpecified(user, flag) /\ IsSome(probe)
  THEN a \o <<flag, Unwrap(probe)>>
  ELSE a

\* Mutant: -clangd is handled before -cli-config
SynthArgs_Reordered(user, cfg, clangd, cli) ==
  PushIfAbsent(
    PushIfAbsent(
      PushIfAbsent(user, user, "-clangd", clangd),
      user, "-cli-config", cfg),
    user, "-cli", cli)

SynthArgs(user, cfg, clangd, cli) ==
  PushIfAbsent(
    PushIfAbsent(
      PushIfAbsent(user, user, "-cli-config", cfg),
      user, "-clangd", clangd),
    user, "-cli", cli)

\* for (key, value) in default_env { env.insert(key, value) }
InsertAll(pairs) ==
  {<<pairs[i][1], pairs[i][2]>> : i \in
     {j \in 1..Len(pairs) :
        \A k \in (j + 1)..Len(pairs) : pairs[k][1] # pairs[j][1]}}

SynthEnv(user, os, shell) ==
  IF user # {} THEN user
  ELSE IF os \in {"Mac", "Linux"} THEN InsertAll(shell) ELSE {}

Synthesize ==
  /\ pc = "synth"
  /\ \E probe \in Probes :
       /\ probed' = probe
       /\ IF ~UserSpecified(args, "-cli-config") /\ ~probe.base
          THEN /\ result' = Panic
               /\ UNCHANGED <<args, env>>
          ELSE LET base == IF platform[1] = "Windows" THEN LocalAppData
                           ELSE HomeDir
                   cfg == IF probe.exists
                          THEN Some(CliConfigPath(platform[1], base))
                          ELSE None
               IN /\ args' = SynthArgs(args, cfg, probe.clangd, probe.cli)
                  /\ env' = SynthEnv(env, platform[1], ShellEnv)
                  /\ result' = Ok([command |-> resolved.val, args |-> args',
                                   env |-> env'], "command")
  /\ pc' = "done"
  /\ UNCHANGED <<persistent, lsp_settings, path, release, asset, entries, log,
                 resolved, prev, interrupted, configuration>>

----------------------------------------------------------------------------
(* language_server_workspace_configuration *)

\* serde_json::Value::default()
JsonNull == "null"

\* Mutant: a settings error is propagated with ?
ConfigurationOf_Failing(s) ==
  IF ~s.ok THEN Err(<<"settings unavailable">>)
  ELSE Ok(Some(IF IsSome(s.settings) THEN Unwrap(s.settings) ELSE JsonNull),
          "configuration")

\* LspSettings::for_worktree(..).ok().and_then(|s| s.settings.clone())
\*   .unwrap_or_default(), wrapped in Ok(Some(..))
ConfigurationOf(s) ==
  Ok(Some(IF s.ok /\ IsSome(s.settings) THEN Unwrap(s.settings) ELSE JsonNull),
     "configuration")

----------------------------------------------------------------------------
(* The world between invocations *)

Quiet == pc \in {"idle", "done"}

\* Forget the finished invocation: what follows is not "in succession"
Forget ==
  /\ pc' = "idle"
  /\ lsp_settings' = [ok |-> FALSE, binary |-> None, settings |-> None]
  /\ path' = None
  /\ args' = <<>>
  /\ env' = {}
  /\ release' = NoRelease
  /\ asset' = NoAsset
  /\ entries' = {}
  /\ log' = <<>>
  /\ resolved' = NoResult
  /\ result' = NoResult
  /\ prev' = None
  /\ interrupted' = None
  /\ probed' = NoProbe

LanguageServerWorkspaceConfiguration ==
  /\ Quiet
  /\ Forget
  /\ \E s \in SettingsChoices :
       configuration' = [settings |-> Some(s), result |-> ConfigurationOf(s)]
  /\ UNCHANGED persistent

\* zed::Extension::new: the extension is loaded again
New ==
  /\ Quiet
  /\ configuration' = NoConfiguration
  /\ cached_binary_path' = None
  /\ Forget
  /\ UNCHANGED <<fs, feed, platform, status>>

PublishRelease ==
  /\ Quiet
  /\ configuration' = NoConfiguration
  /\ feed' \in Releases \ {feed}
  /\ Forget
  /\ UNCHANGED <<cached_binary_path, fs, platform, status>>

\* Someone else removes an extracted file or a whole directory
ExternalRemove ==
  /\ Quiet
  /\ configuration' = NoConfiguration
  /\ \/ \E p \in fs.files : fs' = RemoveFile(fs, p)
     \/ \E d \in fs.dirs : fs' = RemoveDirAll(fs, d)
  /\ Forget
  /\ UNCHANGED <<cached_binary_path, feed, platform, status>>

\* Something else appears in the working directory
ExternalCreate ==
  /\ Quiet
  /\ configuration' = NoConfiguration
  /\ \E d \in OtherDirs \ fs.dirs : fs' = [fs EXCEPT !.dirs = @ \cup {d}]
  /\ Forget
  /\ UNCHANGED <<cached_binary_path, feed, platform, status>>

----------------------------------------------------------------------------

Init ==
  /\ cached_binary_path = None
  /\ fs = InitFs
  /\ feed \in Releases
  /\ platform \in Targets
  /\ status = "None"
  /\ pc = "idle"
  /\ lsp_settings = [ok |-> FALSE, binary |-> None, settings |-> None]
  /\ path = None
  /\ args = <<>>
  /\ env = {}
  /\ release = NoRelease
  /\ asset = NoAsset
  /\ entries = {}
  /\ log = <<>>
  /\ resolved = NoResult
  /\ result = NoResult
  /\ prev = None
  /\ interrupted = None
  /\ probed = NoProbe
  /\ configuration = NoConfiguration

Next ==
  \/ LanguageServerCommand
  \/ ExplicitOverride
  \/ SystemDiscovery
  \/ CacheValidation
  \/ NotifyChecking
  \/ LatestRelease
  \/ SelectAsset
  \/ StatFinal
  \/ NotifyDownloading
  \/ Download
  \/ ReadDir
  \/ CleanupEntry
  \/ MakeExecutable
  \/ StoreCache
  \/ Synthesize
  \/ LanguageServerWorkspaceConfiguration
  \/ New
  \/ PublishRelease
  \/ ExternalRemove
  \/ ExternalCreate

Spec == Init /\ [][Next]_vars

----------------------------------------------------------------------------
(* The release selector on its own: every platform and architecture, and
   releases that carry an archive for each of them, listed twice *)

Pairs ==
  << <<"Mac", "X8664">>, <<"Mac", "Aarch64">>, <<"Mac", "X86">>,
     <<"Linux", "X8664">>, <<"Linux", "Aarch64">>, <<"Linux", "X86">>,
     <<"Windows", "X8664">>, <<"Windows", "Aarch64">>, <<"Windows", "X86">> >>

FullAssets(version) ==
  [i \in 1..(2 * Len(Pairs)) |->
     LET k == IF i <= Len(Pairs) THEN i ELSE i - Len(Pairs)
         name == AssetName(version, Pairs[k][1], Pairs[k][2])
     IN MkAsset(name, IF i <= Len(Pairs) THEN Url(version, name)
                      ELSE MirrorUrl(version, name))]

FullReleases == {[version |-> v, assets |-> FullAssets(v)] : v \in Versions}

InitSelect ==
  /\ cached_binary_path = None
  /\ fs = InitFs
  /\ feed \in Releases \cup FullReleases
  /\ platform \in Os \X Architecture
  /\ status = "None"
  /\ pc = "idle"
  /\ lsp_settings = [ok |-> FALSE, binary |-> None, settings |-> None]
  /\ path = None
  /\ args = <<>>
  /\ env = {}
  /\ release = NoRelease
  /\ asset = NoAsset
  /\ entries = {}
  /\ log = <<>>
  /\ resolved = NoResult
  /\ result = NoResult
  /\ prev = None
  /\ interrupted = None
  /\ probed = NoProbe
  /\ configuration = NoConfiguration

PublishAny ==
  /\ Quiet
  /\ configuration' = NoConfiguration
  /\ feed' \in (Releases \cup FullReleases) \ {feed}
  /\ Forget
  /\ UNCHANGED <<cached_binary_path, fs, platform, status>>

\* Resolution up to the selected asset
NextSelect ==
  \/ LanguageServerCommand
  \/ ExplicitOverride
  \/ SystemDiscovery
  \/ CacheValidation
  \/ NotifyChecking
  \/ LatestRelease
  \/ SelectAsset
  \/ Synthesize
  \/ PublishAny

SpecSelect == InitSelect /\ [][NextSelect]_vars

----------------------------------------------------------------------------
(* Vocabulary of the properties *)

\* The settings report a binary override path for this invocation
HasOverride ==
  /\ lsp_settings.ok
  /\ lsp_settings.binary # <<>>
  /\ lsp_settings.binary[1].path # <<>>

ConfiguredPath == lsp_settings.binary[1].path[1]

\* language_server_binary_path has returned
Returned == resolved.kind # "none"

\* None of download, cleanup pass, permission change in this invocation
NoInstallWork ==
  /\ ~Logged("download_file")
  /\ ~Logged("read_dir")
  /\ ~Logged("remove_dir_all")
  /\ ~Logged("make_file_executable")

\* The stat of version_dir/binary_name (the one after the release query)
\* found a regular file
FinalStatHit ==
  \E i \in 1..Len(log) : \E j \in 1..(i - 1) :
    /\ log[j].op = "latest_github_release"
    /\ log[i].op = "metadata"
    /\ log[i].ret = "file"

FailedRemovals ==
  {i \in 1..Len(log) : log[i].op = "remove_dir_all" /\ log[i].ret = "err"}

----------------------------------------------------------------------------
(* Properties *)

\* C1: with a binary override path in the settings, language_server_binary_path
\* returns exactly that path and makes no collaborator call at all in that
\* invocation: no PATH lookup, no stat, no release query, no status, no
\* download, no removal.
C1_OverrideVerbatim ==
  HasOverride =>
    /\ log = <<>>
    /\ pc \in {"override", "synth", "done"}
    /\ Returned => resolved = Ok(ConfiguredPath, "override")
    /\ (pc = "done" /\ result.kind = "Ok") => result.val.command = ConfiguredPath

\* The override wins although a valid cached executable exists
C1_Witness ==
  /\ pc = "done"
  /\ HasOverride
  /\ resolved.kind = "Ok"
  /\ cached_binary_path # <<>>
  /\ cached_binary_path[1] \in fs.files

\* C2: with no override and a PATH hit, the PATH result is returned at once:
\* the only collaborator call of the invocation is the PATH lookup, so no
\* cache stat, release query or download happens, whatever the cache holds.
C2_PathShortCircuits ==
  (~HasOverride /\ path # <<>>) =>
    /\ log = <<Call("which", <<"arduino_language_server">>, "some")>>
    /\ pc \in {"synth", "done"}
    /\ resolved = Ok(path[1], "path")

\* The PATH result is returned although a valid cached executable of the
\* latest release is installed
C2_Witness ==
  /\ pc = "done"
  /\ ~HasOverride
  /\ path # <<>>
  /\ resolved.kind = "Ok"
  /\ cached_binary_path = <<FinalBinaryPath(feed.version, platform[1])>>
  /\ cached_binary_path[1] \in fs.files

\* C3: the cache step is reached only without override and PATH hit, and when
\* it finds the cached path to be a regular file it returns that path with
\* only the stat added to the calls: no release query, status, download or
\* removal, and nothing on disk or in the cache changes.
C3_ValidCacheReturned ==
  /\ [](pc = "cache" =>
          /\ ~HasOverride
          /\ path = <<>>
          /\ log = <<Call("which", <<"arduino_language_server">>, "none")>>)
  /\ [][(/\ pc = "cache"
         /\ cached_binary_path # <<>>
         /\ cached_binary_path[1] \in fs.files)
        => (/\ pc' = "synth"
            /\ resolved' = Ok(cached_binary_path[1], "cache")
            /\ log' = Append(log, Call("metadata", cached_binary_path, "file"))
            /\ UNCHANGED <<cached_binary_path, fs, feed, status>>)]_vars

\* A cached executable is returned while the feed offers another version
\* for this platform
C3_Witness ==
  /\ resolved.kind = "Ok"
  /\ resolved.via = "cache"
  /\ resolved.val # FinalBinaryPath(feed.version, platform[1])
  /\ FindAsset(feed.assets, AssetName(feed.version, platform[1], platform[2]))
       # <<>>

\* C4: when the cached path is not a regular file at the cache step, the step
\* returns nothing and goes on to acquisition: the status, then the release
\* query, and from the stat of version_dir/binary_name, when that file is
\* missing, on to the download.
C4_StaleCacheFallsThrough ==
  /\ [][(/\ pc = "cache"
         /\ cached_binary_path # <<>>
         /\ cached_binary_path[1] \notin fs.files)
        => (/\ pc' = "checking"
            /\ resolved' = NoResult
            /\ log' = Append(log, Call("metadata", cached_binary_path, "absent"))
            /\ UNCHANGED <<cached_binary_path, fs>>)]_vars
  /\ [][pc = "checking" => pc' = "release"]_vars
  /\ [][pc = "release" => (Logged("latest_github_release"))']_vars
  /\ [][(pc = "stat" /\ final_binary_path \notin fs.files)
        => pc' = "downloading"]_vars
  /\ [][pc = "downloading" => pc' = "download"]_vars
  /\ [][pc = "download" => (Logged("download_file"))']_vars
  /\ [](resolved.via = "cache" => resolved.val \in fs.files)

\* A stale cached path was found absent and the invocation went on to
\* download and return a path
C4_Witness ==
  /\ Len(log) >= 2
  /\ log[2].op = "metadata"
  /\ log[2].ret = "absent"
  /\ \E i \in 1..Len(log) : log[i].op = "download_file" /\ log[i].ret = "ok"
  /\ resolved.kind = "Ok"

\* C5 as stated: after an invocation that downloaded and returned Ok, the
\* new version directory is the only directory in the working directory.
C5_ExactlyOneDirectory ==
  (Returned /\ resolved.kind = "Ok" /\ Logged("download_file")) =>
    fs.dirs = {VersionDir(feed.version)}

\* C5 amended: after an invocation that downloaded and returned Ok, the new
\* version directory is present and every other directory still present is
\* one whose removal was attempted and failed; so with no failed removal
\* exactly one directory remains.
C5_OneDirectoryUnlessRemovalFailed ==
  (Returned /\ resolved.kind = "Ok" /\ Logged("download_file")) =>
    /\ VersionDir(feed.version) \in fs.dirs
    /\ \A d \in fs.dirs \ {VersionDir(feed.version)} :
         LoggedCall(Call("remove_dir_all", <<d>>, "err"))

\* A fresh install that removed two stale directories, one of them no
\* version directory, and left exactly the new one
C5_Witness ==
  /\ resolved.kind = "Ok"
  /\ Logged("download_file")
  /\ fs.dirs = {VersionDir(feed.version)}
  /\ FailedRemovals = {}
  /\ \E d \in OtherDirs : LoggedCall(Call("remove_dir_all", <<d>>, "ok"))
  /\ CountOp("remove_dir_all") >= 2

\* C6: a failed removal of a stale directory never ends the invocation: the
\* step in which the removal fails stays in the cleanup pass or moves on to
\* make_file_executable, and once that has succeeded the invocation returns
\* the path, stored in the cache, however many removals failed.
C6_RemovalFailureNotFatal ==
  /\ [][(\E d \in DirNames :
           log' = Append(log, Call("remove_dir_all", <<d>>, "err")))
        => (/\ pc' \in {"cleanup", "make_exec"}
            /\ resolved' = NoResult
            /\ result' = NoResult)]_vars
  /\ [](( /\ Returned
          /\ LoggedCall(Call("make_file_executable",
                             <<final_binary_path>>, "ok")))
        => (/\ resolved = Ok(final_binary_path, "acquire")
            /\ cached_binary_path = <<final_binary_path>>))

\* Every removal of the cleanup pass failed, there were at least two, and
\* the invocation still returned the fresh path
C6_Witness ==
  /\ pc = "done"
  /\ resolved.kind = "Ok"
  /\ resolved.via = "acquire"
  /\ Cardinality(FailedRemovals) >= 2
  /\ Cardinality(FailedRemovals) = CountOp("remove_dir_all")

\* C7: when no asset of the release is named as computed, the asset step
\* ends the invocation with an error that carries the computed name, leaving
\* cache, disk and call log as they were; up to then the feed was queried
\* exactly once and nothing was downloaded or removed, and the cache is
\* written nowhere but in the store step or by a reload.
C7_NoMatchingAsset ==
  /\ [][(/\ pc = "asset"
         /\ \A i \in 1..Len(release.assets) :
              release.assets[i].name
                # AssetName(release.version, platform[1], platform[2]))
        => (/\ pc' = "done"
            /\ resolved'.kind = "Err"
            /\ \E i \in 1..Len(resolved'.val) :
                 resolved'.val[i]
                   = DebugFmt(AssetName(release.version, platform[1],
                                        platform[2]))
            /\ result' = resolved'
            /\ UNCHANGED <<cached_binary_path, fs, log>>)]_vars
  /\ [](pc = "asset" =>
          /\ CountOp("latest_github_release") = 1
          /\ NoInstallWork)
  /\ [][cached_binary_path' # cached_binary_path
        => (pc = "store" \/ pc' = "idle")]_vars

\* The lookup failed with the no-asset error while a cached path was set
C7_Witness ==
  /\ pc = "done"
  /\ resolved.kind = "Err"
  /\ resolved.val[1] = "no asset found matching "
  /\ cached_binary_path # <<>>

\* C8: an invocation right after one that resolved a download-derived path,
\* with nothing changed in between and no override or PATH hit, returns the
\* same path with no download, cleanup pass or permission change; and in any
\* invocation whose stat of version_dir/binary_name finds the file, none of
\* download, cleanup or make_file_executable happens.
C8_Idempotent ==
  /\ (prev # <<>> /\ Returned /\ ~HasOverride /\ path = <<>>) =>
       /\ resolved.kind = "Ok"
       /\ resolved.val = prev[1]
       /\ NoInstallWork
  /\ FinalStatHit =>
       /\ NoInstallWork
       /\ ~LoggedCall(Call("set_language_server_installation_status",
                           <<"Downloading">>, "ok"))
       /\ Returned => resolved = Ok(final_binary_path, "acquire")

\* The second of two invocations in succession, the first of which
\* installed or found the executable, returned the same path
C8_Witness ==
  /\ pc = "done"
  /\ prev # <<>>
  /\ ~HasOverride
  /\ path = <<>>
  /\ resolved.kind = "Ok"
  /\ resolved.val = prev[1]
  /\ prev[1] = FinalBinaryPath(feed.version, platform[1])

\* C9: an invocation that downloaded and returned Ok downloaded, once, the
\* first asset named arduino-language-server_V_<os>_<arch>.tar.gz of the
\* latest release V into arduino-language-server-V, returned
\* arduino-language-server-V/<binary name> (with .exe on Windows only), which
\* is a file marked executable and is what the cache now holds; a successful
\* make_file_executable is always followed by Ok, and every Err comes from
\* a failed collaborator call or a missing asset.
C9_FreshInstall ==
  LET dir == "arduino-language-server-" \o feed.version
      bin == IF platform[1] = "Windows" THEN "arduino-language-server.exe"
             ELSE "arduino-language-server"
      p == dir \o "/" \o bin
      wanted == FindAsset(feed.assets,
                          AssetName(feed.version, platform[1], platform[2]))
  IN /\ (Returned /\ resolved.kind = "Ok" /\ Logged("download_file")) =>
          /\ resolved = Ok(p, "acquire")
          /\ cached_binary_path = <<p>>
          /\ dir \in fs.dirs
          /\ p \in fs.files
          /\ p \in fs.marked
          /\ wanted # <<>>
          /\ LoggedCall(Call("download_file",
                             <<wanted[1].download_url, dir, "GzipTar">>, "ok"))
          /\ CountOp("download_file") = 1
          /\ LoggedCall(Call("make_file_executable", <<p>>, "ok"))
     /\ (Returned /\ Logged("make_file_executable")
           /\ log[Len(log)].ret = "ok") => resolved.kind = "Ok"
     /\ (Returned /\ resolved.kind = "Err") =>
          \/ log[Len(log)].ret = "err"
          \/ resolved.val[1] \in {"no asset found matching ",
                                  "failed to load directory entry ",
                                  "failed to get file type for "}

\* The scenario of the specification: v1.2.0 on Linux/x86-64
C9_Witness ==
  /\ pc = "done"
  /\ platform = <<"Linux", "X8664">>
  /\ LoggedCall(Call("download_file",
       <<Url("v1.2.0", "arduino-language-server_v1.2.0_Linux_64bit.tar.gz"),
         "arduino-language-server-v1.2.0", "GzipTar">>, "ok"))
  /\ resolved
       = Ok("arduino-language-server-v1.2.0/arduino-language-server", "acquire")
  /\ "arduino-language-server-v1.2.0/arduino-language-server" \in fs.marked

\* C10: whenever resolution ends in an error, language_server_command
\* produces no command and the host has been given an installation-failure
\* status, so the last status is not left at checking or downloading.
C10_FailureStatusSignalled ==
  (pc = "done" /\ resolved.kind = "Err") =>
    /\ result.kind = "Err"
    /\ status \notin {"CheckingForUpdate", "Downloading"}
    /\ LoggedCall(Call("set_language_server_installation_status",
                       <<"Failed">>, "ok"))

----------------------------------------------------------------------------
(* Command synthesis and the settings *)

\* What the settings of this invocation supplied as arguments
UserArgs == SeedArgs(lsp_settings)

Built == pc = "done" /\ result.kind = "Ok" /\ result.via = "command"

Occurrences(a, x) == Cardinality({i \in 1..Len(a) : a[i] = x})

AutoFlags == {"-cli-config", "-clangd", "-cli"}

\* The values the extension itself would supply on this platform
AutoValues ==
  {ClangdPath, CliPath, CliConfigPath(platform[1], HomeDir),
   CliConfigPath(platform[1], LocalAppData)}

\* C11: a flag the user already passed (-cli-config, -clangd or -cli) is never
\* passed a second time: it occurs in the built command as often as the user
\* wrote it, the user's arguments are the prefix of the result, and what
\* follows them carries neither that flag nor a discovered value for it, even
\* when the probe found one (user "-clangd /x/clangd", clangd on PATH at
\* /y/clangd: no "/y/clangd" in the result).
C11_NoDuplicateFlag ==
  Built =>
    /\ SubSeq(result.val.args, 1, Len(UserArgs)) = UserArgs
    /\ \A f \in AutoFlags :
         UserSpecified(UserArgs, f) =>
           Occurrences(result.val.args, f) = Occurrences(UserArgs, f)
    /\ (UserSpecified(UserArgs, "-clangd") /\ IsSome(probed.clangd)) =>
         ~UserSpecified(result.val.args, Unwrap(probed.clangd))
    /\ (UserSpecified(UserArgs, "-cli") /\ IsSome(probed.cli)) =>
         ~UserSpecified(result.val.args, Unwrap(probed.cli))
    /\ UserSpecified(UserArgs, "-cli-config") =>
         \A v \in AutoValues \ {ClangdPath, CliPath} :
           ~UserSpecified(result.val.args, v)

C11_Witness ==
  /\ Built
  /\ UserArgs = <<"-clangd", "/x/clangd">>
  /\ probed.clangd = Some("/y/clangd")
  /\ UserSpecified(result.val.args, "/x/clangd")
  /\ ~UserSpecified(result.val.args, "/y/clangd")

SettingsAbsent == ~lsp_settings.ok \/ lsp_settings.binary = <<>>

\* C12: missing or failing settings are never an error.  When the settings
\* lookup fails or holds no binary section, the command starts from empty
\* arguments and an empty environment, resolution goes on to the PATH lookup
\* as its first collaborator call, and any error of the invocation is one
\* that the acquisition raised after the release query.  The workspace
\* configuration is always Ok(Some(..)): the configured settings verbatim,
\* or the empty default when the lookup fails or holds none.
C12_AbsentSettingsTolerated ==
  /\ (pc # "idle" /\ SettingsAbsent) =>
       /\ UserArgs = <<>>
       /\ SeedEnv(lsp_settings) = {}
       /\ pc # "done" => (args = <<>> /\ env = {})
       /\ pc \notin {"override", "which"} =>
            (log # <<>> /\ log[1].op = "which"
               /\ log[1].arg = <<ServerWhichName>>)
       /\ result.kind = "Err" =>
            (result = resolved /\ Logged("latest_github_release"))
       /\ Built => result.val.command = resolved.val
  /\ configuration.settings # <<>> =>
       LET s == configuration.settings[1]
       IN /\ configuration.result.kind = "Ok"
          /\ configuration.result.val =
               <<IF s.ok /\ s.settings # <<>> THEN s.settings[1] ELSE "null">>

C12_Witness ==
  /\ configuration.settings # <<>>
  /\ ~configuration.settings[1].ok
  /\ configuration.result.kind = "Ok"
  /\ configuration.result.val = <<"null">>

----------------------------------------------------------------------------
(* Acquisition *)

ReleaseOk == LoggedCall(Call("latest_github_release", <<Repo>>, "ok"))

FailedFetches ==
  {i \in 1..Len(log) : /\ log[i].op \in {"latest_github_release",
                                         "download_file"}
                       /\ log[i].ret = "err"}

\* C13: nothing is retried.  One invocation queries the release feed at most
\* once, and exactly once when there is no override, no PATH hit and no valid
\* cached path; the release it works with is the one the feed holds at that
\* query, never one kept from an earlier invocation; it downloads at most
\* once; a failed query or download is the last call of the invocation,
\* which returns that error with no listing, removal or permission change.
C13_NoRetry ==
  /\ CountOp("latest_github_release") <= 1
  /\ CountOp("download_file") <= 1
  /\ Returned =>
       (CountOp("latest_github_release") = 1
          <=> (~HasOverride /\ path = <<>> /\ resolved.via # "cache"))
  /\ release = IF ReleaseOk THEN feed ELSE NoRelease
  /\ \A i \in FailedFetches :
       /\ i = Len(log)
       /\ pc = "done"
       /\ resolved.kind = "Err"
       /\ result = resolved
       /\ ~Logged("read_dir")
       /\ ~Logged("remove_dir_all")
       /\ ~Logged("make_file_executable")

C13_Witness ==
  /\ pc = "done"
  /\ log # <<>>
  /\ log[Len(log)].op = "download_file"
  /\ log[Len(log)].ret = "err"
  /\ CountOp("latest_github_release") = 1
  /\ resolved.kind = "Err"

OsNames == [Mac |-> "macOS", Linux |-> "Linux", Windows |-> "Windows"]
ArchNames == [Aarch64 |-> "ARM64", X86 |-> "32bit", X8664 |-> "64bit"]

ExpectedAsset(v, os, arch) ==
  "arduino-language-server_" \o v \o "_" \o OsNames[os] \o "_"
    \o ArchNames[arch] \o ".tar.gz"

\* C14: for each of the nine (OS, architecture) pairs the asset looked for is
\* arduino-language-server_<version>_<macOS|Linux|Windows>_<ARM64|32bit|64bit>
\* .tar.gz, the selected asset is the first one of the release whose name is
\* exactly that, and when the release has none the invocation fails with the
\* no-asset error.
C14_AssetSelection ==
  /\ \A v \in Versions : \A os \in Os : \A arch \in Architecture :
       AssetName(v, os, arch) = ExpectedAsset(v, os, arch)
  /\ asset # NoAsset =>
       LET want == ExpectedAsset(release.version, platform[1], platform[2])
       IN \E i \in 1..Len(release.assets) :
            /\ release.assets[i] = asset
            /\ asset.name = want
            /\ \A j \in 1..(i - 1) : release.assets[j].name # want
  /\ (ReleaseOk /\ pc \notin {"asset"} /\ asset = NoAsset) =>
       /\ \A i \in 1..Len(release.assets) :
            release.assets[i].name #
              ExpectedAsset(release.version, platform[1], platform[2])
       /\ resolved.kind = "Err"
       /\ resolved.val[1] = "no asset found matching "

C14_Witness ==
  /\ platform = <<"Windows", "X86">>
  /\ asset.name = "arduino-language-server_v1.2.0_Windows_32bit.tar.gz"
  /\ asset.download_url = Url("v1.2.0", asset.name)
  /\ \E i \in 1..Len(release.assets) :
       /\ release.assets[i].name = asset.name
       /\ release.assets[i] # asset

\* C15: every path returned Ok from the download branch or from the cache
\* names a file that has been marked executable since it was extracted, also
\* when the invocation that extracted it failed before the permission call.
C15_ReturnedFileExecutable ==
  (Returned /\ resolved.kind = "Ok" /\ resolved.via \in {"cache", "acquire"})
    => resolved.val \in fs.marked

\* C16: whenever the cleanup pass has removed a directory, a regular file
\* exists at version_dir/binary_name of the release being installed.
C16_CleanupOnlyWhenInstalled ==
  (pc # "idle" /\ Logged("remove_dir_all")) => IsFile(fs, final_binary_path)

DownloadDerived ==
  {JoinPath("arduino-language-server-" \o v, b) :
     v \in Versions, b \in {"arduino-language-server",
                            "arduino-language-server.exe"}}

\* C17: the cached path is empty at startup; it is always empty or a
\* version_dir/binary_name path, never the override or the PATH result; the
\* only step of an invocation that changes it is the successful end of the
\* acquisition, which sets it to the path being returned; returns by
\* override, PATH, cache hit or error go through no such step, and a cached
\* path found stale stays as it was.  (Outside invocations only a restart of
\* the extension empties it.)
C17_CacheFrame ==
  /\ cached_binary_path = <<>>
  /\ [](/\ cached_binary_path = <<>> \/ cached_binary_path[1] \in DownloadDerived
        /\ cached_binary_path \notin {<<OverridePath>>, <<SystemPath>>}
        /\ (Returned /\ resolved.via = "acquire") =>
             cached_binary_path = <<resolved.val>>)
  /\ [][cached_binary_path' # cached_binary_path =>
          \/ /\ pc = "store"
             /\ resolved' = Ok(final_binary_path, "acquire")
             /\ cached_binary_path' = <<final_binary_path>>
             /\ Logged("latest_github_release")
          \/ /\ Quiet
             /\ pc' = "idle"
             /\ cached_binary_path' = <<>>]_vars

C17_Witness ==
  /\ pc = "done"
  /\ resolved.kind = "Err"
  /\ cached_binary_path # <<>>
  /\ ~IsFile(fs, cached_binary_path[1])
  /\ LoggedCall(Call("metadata", cached_binary_path, "absent"))

\* C18: when the invocation just before this one downloaded and extracted
\* the current version and then failed in the cleanup pass, and this one has
\* no override, no PATH hit and no cache hit and its release query answers,
\* it returns that version's version_dir/binary_name with Ok, downloads
\* nothing and removes nothing, whatever stale directories are left.
C18_ResumeAfterFailedCleanup ==
  (/\ interrupted # <<>>
   /\ Returned
   /\ ~HasOverride
   /\ path = <<>>
   /\ resolved.via # "cache"
   /\ ReleaseOk)
    => /\ resolved = Ok(interrupted[1], "acquire")
       /\ interrupted[1] = final_binary_path
       /\ ~Logged("download_file")
       /\ ~Logged("remove_dir_all")

C18_Witness ==
  /\ interrupted # <<>>
  /\ pc = "done"
  /\ resolved = Ok(interrupted[1], "acquire")
  /\ cached_binary_path = interrupted
  /\ fs.dirs \ {version_dir} # {}
  /\ ~Logged("download_file")

StatusCall(st) == Call("set_language_server_installation_status", <<st>>, "ok")

\* C19: within an invocation the "checking for update" status precedes the
\* release query and the "downloading" status precedes the download;
\* "downloading" directly follows a stat of version_dir/binary_name that
\* found no file; an invocation that returned by override, PATH or valid
\* cache has emitted no status.
C19_StatusBeforeNetwork ==
  /\ \A i \in 1..Len(log) :
       /\ log[i].op = "latest_github_release" =>
            \E j \in 1..(i - 1) : log[j] = StatusCall("CheckingForUpdate")
       /\ log[i].op = "download_file" =>
            \E j \in 1..(i - 1) : log[j] = StatusCall("Downloading")
       /\ log[i] = StatusCall("Downloading") =>
            /\ i > 1
            /\ log[i - 1] = Call("metadata", <<final_binary_path>>, "absent")
            /\ \E j \in 1..(i - 1) : log[j].op = "latest_github_release"
  /\ (Returned /\ resolved.via \in {"override", "path", "cache"}) =>
       ~Logged("set_language_server_installation_status")

C19_Witness ==
  /\ pc = "done"
  /\ resolved.kind = "Ok"
  /\ resolved.via = "acquire"
  /\ \E i, j, k, l \in 1..Len(log) :
       /\ i < j /\ j < k /\ k < l
       /\ log[i] = StatusCall("CheckingForUpdate")
       /\ log[j].op = "latest_github_release"
       /\ log[k] = StatusCall("Downloading")
       /\ log[l].op = "download_file"

Pair(flag, user, probe) ==
  IF ~UserSpecified(user, flag) /\ probe # <<>> THEN <<flag, probe[1]>>
  ELSE <<>>

DefaultConfig ==
  CASE platform[1] = "Mac" -> "/home/user/Library/Arduino15/arduino-cli.yaml"
    [] platform[1] = "Linux" -> "/home/user/.arduino15/arduino-cli.yaml"
    [] platform[1] = "Windows" ->
         "C:/Users/user/AppData/Local/Arduino15/arduino-cli.yaml"

\* C20: the arguments of a built command are the user's arguments, then
\* "-cli-config <default path>" iff the user gave no -cli-config and the
\* default path exists, then "-clangd <path>" iff the user gave no -clangd
\* and clangd is on PATH, then "-cli <path>" likewise for arduino-cli; when
\* the base directory is known, the user gave no -cli-config and the default
\* file does not exist, the command is built without that flag.
C20_SynthesizedArguments ==
  /\ Built =>
       result.val.args =
         UserArgs
           \o Pair("-cli-config", UserArgs,
                   IF probed.exists THEN <<DefaultConfig>> ELSE <<>>)
           \o Pair("-clangd", UserArgs, probed.clangd)
           \o Pair("-cli", UserArgs, probed.cli)
  /\ (/\ pc = "done"
      /\ resolved.kind = "Ok"
      /\ ~UserSpecified(UserArgs, "-cli-config")
      /\ probed.base
      /\ ~probed.exists)
       => (Built /\ ~UserSpecified(result.val.args, "-cli-config"))

C20_Witness ==
  /\ Built
  /\ UserArgs = <<>>
  /\ probed.base
  /\ ~probed.exists
  /\ result.val.args = <<"-clangd", "/y/clangd">>

====
